---------------------------- MODULE Spec2Model ----------------------------
(***************************************************************************)
(* A model of cyberbrain/basis.py: the FrameID class with its class-level  *)
(* registry state (current_, child_index) and the event transition         *)
(* FrameID.create, together with the relationship queries on FrameID.      *)
(*                                                                         *)
(* Python values are modelled as records tagged with their class (field    *)
(* cls), so that an attribute access on a value of the wrong class is an   *)
(* AttributeError and not a comparison.  The outcome of an operation is    *)
(* either a returned value or a raised exception.                          *)
(***************************************************************************)
EXTENDS Integers, Sequences, FiniteSets, TLC

(***************************************************************************)
(* Bounds of the model.                                                    *)
(***************************************************************************)
\* Number of events handed to FrameID.create in one run.
MaxEvents == 6
\* Longest path and largest path element of the FrameIDs given to the
\* relationship queries when they are checked as pure functions.
MaxPathLen == 3
MaxIndex == 1
\* Largest sibling index in the frame paths of the IDs that are compared.
MaxIDIndex == 2

VARIABLES
    current_,     \* FrameID.current_: the path of the frame being executed
    child_index,  \* FrameID.child_index: dict from a parent path to an int
    op,           \* name of the operation performed last
    args,         \* arguments of the operation performed last
    result,       \* outcome of the operation performed last
    trace,        \* history: one entry per event given to create
    frames,       \* history: the frames of the traced program, in creation order
    stack,        \* history: numbers of the frames that have not returned
    wellNested    \* history: no return was observed without an open call

vars == <<current_, child_index, op, args, result, trace, frames,
          stack, wellNested>>

registry == <<current_, child_index>>

history == <<trace, frames, stack, wellNested>>

(***************************************************************************)
(* Python values and outcomes.                                             *)
(***************************************************************************)
None == [cls |-> "NoneType"]

Bool(v) == [cls |-> "bool", value |-> v]

\* A raw tuple of ints.
Tuple(t) == [cls |-> "tuple", items |-> t]

\* A list of ints: a sequence that is neither a FrameID nor a tuple.
List(t) == [cls |-> "list", items |-> t]

PyInt(v) == [cls |-> "int", value |-> v]

\* FrameID.__init__: the object keeps the tuple it is given.
FrameID(frame_id_tuple) == [cls |-> "FrameID", frame_id_tuple |-> frame_id_tuple]

Return(v) == [kind |-> "return", value |-> v]

Raise(exc, excargs) == [kind |-> "raise", exc |-> exc, args |-> excargs]

NoResult == [kind |-> "none"]

(***************************************************************************)
(* Sequences as Python tuples.                                             *)
(***************************************************************************)
\* Variant: the slice keeps the whole tuple.
DropLast_whole(t) == t

\* t[:-1]: the tuple without its last element; () for the empty tuple.
DropLast(t) == IF Len(t) = 0 THEN <<>> ELSE SubSeq(t, 1, Len(t) - 1)

Last(t) == t[Len(t)]

IsPrefix(s, t) == Len(s) <= Len(t) /\ SubSeq(t, 1, Len(s)) = s

IsStrictPrefix(s, t) == Len(s) < Len(t) /\ IsPrefix(s, t)

(***************************************************************************)
(* child_index is a defaultdict(int): reading a missing key inserts it     *)
(* with the value 0.                                                       *)
(***************************************************************************)
\* The dict after child_index[key] has been evaluated.
Touch(d, key) == IF key \in DOMAIN d THEN d ELSE d @@ (key :> 0)

\* Variant: a lookup that never sees the stored value.
Lookup_zero(d, key) == 0

\* The value child_index[key] evaluates to.
Lookup(d, key) == IF key \in DOMAIN d THEN d[key] ELSE 0

\* Variant: the counter is read but not advanced.
Increment_skipped(d, key) == Touch(d, key)

\* Variant: the counter advanced by two.
Increment_by_two(d, key) == [Touch(d, key) EXCEPT ![key] = Lookup(d, key) + 2]

\* The dict after child_index[key] += 1.
Increment(d, key) == [Touch(d, key) EXCEPT ![key] = Lookup(d, key) + 1]


(***************************************************************************)
(* FrameID: the methods, as functions of the class state they read.        *)
(***************************************************************************)
\* FrameID.__eq__(self, other): reads other._frame_id_tuple, an attribute
\* only a FrameID has.
FrameID_eq(self, o) ==
    IF o.cls = "FrameID"
    THEN Return(Bool(self.frame_id_tuple = o.frame_id_tuple))
    ELSE Raise("AttributeError", <<o.cls, "_frame_id_tuple">>)

\* FrameID.tuple (property).
tuple(self) ==
    IF self.cls = "FrameID"
    THEN Return(Tuple(self.frame_id_tuple))
    ELSE Raise("AttributeError", <<self.cls, "tuple">>)

\* FrameID.current(): a FrameID for the class attribute current_.
current(cur) == Return(FrameID(cur))

\* FrameID.parent (property).
parent(self) == Return(FrameID(DropLast(self.frame_id_tuple)))

\* self.is_child_of(other): other == self._frame_id_tuple, which is
\* FrameID.__eq__(other, <a tuple>).
is_child_of(self, o) == FrameID_eq(o, Tuple(self.frame_id_tuple))

\* self.is_parent_of(other): self == other._frame_id_tuple.
is_parent_of(self, o) == FrameID_eq(self, Tuple(o.frame_id_tuple))

(***************************************************************************)
(* ID: an identifier name with the frame it lives in.                      *)
(***************************************************************************)
Str(v) == [cls |-> "str", value |-> v]

\* ID.__init__(name, frame_id_or_tuple).  With an argument that is neither
\* a FrameID nor a tuple, self.frame_id is never assigned and reading it
\* raises.
\* Variant: any other argument is wrapped in a FrameID as it is.
ID_lenient(name, frame_id_or_tuple) ==
    LET object(frame_id) ==
            [cls |-> "ID", name |-> name, frame_id |-> frame_id,
             key |-> <<name, frame_id.frame_id_tuple>>]
    IN  IF frame_id_or_tuple.cls = "FrameID"
        THEN Return(object(frame_id_or_tuple))
        ELSE IF frame_id_or_tuple.cls \in {"tuple", "list"}
        THEN Return(object(FrameID(frame_id_or_tuple.items)))
        ELSE Return(object(FrameID(<<>>)))

ID(name, frame_id_or_tuple) ==
    LET object(frame_id) ==
            [cls |-> "ID", name |-> name, frame_id |-> frame_id,
             key |-> <<name, frame_id.frame_id_tuple>>]
    IN  IF frame_id_or_tuple.cls = "FrameID"
        THEN Return(object(frame_id_or_tuple))
        ELSE IF frame_id_or_tuple.cls = "tuple"
        THEN Return(object(FrameID(frame_id_or_tuple.items)))
        ELSE Raise("AttributeError", <<"ID", "frame_id">>)

\* Variant: IDs compared by name alone.
ID_eq_by_name(self, o) ==
    IF o.cls = "ID"
    THEN Return(Bool(self.key[1] = o.key[1]))
    ELSE Raise("AttributeError", <<o.cls, "_key">>)

\* ID.__eq__(self, other): compares the keys (name, tuple).
ID_eq(self, o) ==
    IF o.cls = "ID"
    THEN Return(Bool(self.key = o.key))
    ELSE Raise("AttributeError", <<o.cls, "_key">>)

\* hash of a str: some number, fixed for the life of the process.
StrHash(v) == CASE v = "x" -> 120 [] v = "y" -> 121 [] OTHER -> 0

\* hash of a tuple, from the hashes of its elements in order.
RECURSIVE TupleHash(_)
TupleHash(hs) ==
    IF Len(hs) = 0 THEN 7
    ELSE (TupleHash(DropLast(hs)) * 31 + Last(hs)) % (2 ^ 16)

\* ID.__hash__(self): hash(self._key), the key being (name, tuple of ints);
\* a small int hashes to itself.
ID_hash(self) ==
    Return(PyInt(TupleHash(<<StrHash(self.key[1].value), TupleHash(self.key[2])>>)))

(***************************************************************************)
(* FrameID.create(event).  Each branch gives the class state it leaves     *)
(* and its outcome.                                                        *)
(***************************************************************************)
Step(cur, ci, res) == [current_ |-> cur, child_index |-> ci, result |-> res]

\* Variant: a line event counted as a finished child of the current frame.
create_line_counting(cur, ci) == Step(cur, Increment(ci, cur), current(cur))

create_line(cur, ci) == Step(cur, ci, current(cur))

\* Variant: the call site attributed to the new frame.
create_call_callee(cur, ci) ==
    LET new == Append(cur, Lookup(ci, cur))
    IN  Step(new, Touch(ci, cur), current(new))

\* Variant: every new frame takes the first sibling index.
create_call_first_index(cur, ci) ==
    Step(Append(cur, 0), Touch(ci, cur), current(cur))

create_call(cur, ci) ==
    LET frame_id == current(cur)
    IN  Step(Append(cur, Lookup(ci, cur)), Touch(ci, cur), frame_id)

\* Variant: the counter of the returning frame is advanced, not its parent's.
create_return_own_counter(cur, ci) ==
    Step(DropLast(cur), Increment(ci, cur), current(DropLast(cur)))

\* Variant: the FrameID is taken before current_ is popped.
create_return_early(cur, ci) ==
    LET popped == DropLast(cur)
    IN  Step(popped, Increment(ci, popped), current(cur))

\* Variant: the counter is advanced but current_ is left on the child.
create_return_no_pop(cur, ci) ==
    Step(cur, Increment(ci, DropLast(cur)), current(cur))

\* Variant: a return in a frame that has no parent path is rejected.
create_return_checked(cur, ci) ==
    IF Len(cur) <= 1
    THEN Step(cur, ci, Raise("ValueError", <<"no frame to return to">>))
    ELSE Step(DropLast(cur), Increment(ci, DropLast(cur)), current(DropLast(cur)))

create_return(cur, ci) ==
    LET popped == DropLast(cur)
    IN  Step(popped, Increment(ci, popped), current(popped))

\* Variant: an unknown event handled as a line event.
create_else_default(event, cur, ci) == Step(cur, ci, current(cur))

create_else(event, cur, ci) ==
    Step(cur, ci, Raise("AttributeError", <<"event type wrong: ", event>>))

create(event, cur, ci) ==
    IF event = "line" THEN create_line(cur, ci)
    ELSE IF event = "call" THEN create_call(cur, ci)
    ELSE IF event = "return" THEN create_return(cur, ci)
    ELSE create_else(event, cur, ci)

(***************************************************************************)
(* The state after the class body has been executed.                       *)
(***************************************************************************)
RootPath == <<0>>

EmptyDict == [key \in {} |-> 0]

Entry(event) ==
    [event |-> event, current_ |-> current_', child_index |-> child_index',
     result |-> result']

Init ==
    /\ current_ = RootPath
    /\ child_index = EmptyDict
    /\ op = "init"
    /\ args = <<>>
    /\ result = NoResult
    /\ trace = << [event |-> "init", current_ |-> RootPath,
                   child_index |-> EmptyDict, result |-> NoResult] >>
    /\ frames = << [path |-> RootPath, ancestors |-> {}] >>
    /\ stack = <<1>>
    /\ wellNested = TRUE

(***************************************************************************)
(* Events given to FrameID.create by the tracing hook.                     *)
(***************************************************************************)
OtherKinds == {"exception"}

Range(s) == {s[i] : i \in 1..Len(s)}

Apply(event) ==
    LET s == create(event, current_, child_index)
    IN  /\ Len(trace) <= MaxEvents
        /\ current_' = s.current_
        /\ child_index' = s.child_index
        /\ result' = s.result
        /\ op' = event
        /\ args' = <<>>
        /\ trace' = Append(trace, Entry(event))

OnLine ==
    /\ Apply("line")
    /\ UNCHANGED <<frames, stack, wellNested>>

OnCall ==
    /\ Apply("call")
    /\ frames' = Append(frames, [path |-> current_', ancestors |-> Range(stack)])
    /\ stack' = Append(stack, Len(frames) + 1)
    /\ UNCHANGED wellNested

OnReturn ==
    /\ Apply("return")
    /\ stack' = SubSeq(stack, 1, Len(stack) - 1)
    /\ wellNested' = (wellNested /\ Len(stack) >= 2)
    /\ UNCHANGED frames

OnOther ==
    /\ \E event \in OtherKinds : Apply(event)
    /\ UNCHANGED <<frames, stack, wellNested>>

(***************************************************************************)
(* Queries.  None of them assigns to a class attribute.                    *)
(***************************************************************************)
Query(name, a, outcome) ==
    /\ op' = name
    /\ args' = a
    /\ result' = outcome
    /\ UNCHANGED <<registry, history>>

Current == Query("current", <<>>, current(current_))

Parent(self) == Query("parent", <<self>>, parent(self))

IsChildOf(self, o) == Query("is_child_of", <<self, o>>, is_child_of(self, o))

IsParentOf(self, o) == Query("is_parent_of", <<self, o>>, is_parent_of(self, o))

NewFrameID(t) == Query("FrameID", <<Tuple(t)>>, Return(FrameID(t)))

NewID(name, x) == Query("ID", <<name, x>>, ID(name, x))

\* The FrameIDs the registry has handed to its caller in this state.
Handed ==
    {FrameID(current_)} \cup
    (IF trace[Len(trace)].result.kind = "return"
     THEN {trace[Len(trace)].result.value} ELSE {})

Names == {Str("x")}

Next ==
    \/ OnLine
    \/ OnCall
    \/ OnReturn
    \/ OnOther
    \/ Current
    \/ \E self \in Handed : Parent(self)
    \/ \E self, o \in Handed : IsChildOf(self, o)
    \/ \E self, o \in Handed : IsParentOf(self, o)
    \/ NewFrameID(current_)
    \/ \E name \in Names, x \in Handed \cup {Tuple(current_), List(current_), None} :
           NewID(name, x)

Spec == Init /\ [][Next]_vars


(***************************************************************************)
(* The methods of FrameID as pure functions: the arguments are drawn in    *)
(* the initial state and the class state is the one the class body leaves. *)
(***************************************************************************)
RECURSIVE PathsOfLen(_)
PathsOfLen(n) ==
    IF n = 0 THEN {<<>>}
    ELSE {Append(t, i) : t \in PathsOfLen(n - 1), i \in 0..MaxIndex}

Paths == UNION {PathsOfLen(n) : n \in 0..MaxPathLen}

FrameIDs == {FrameID(t) : t \in Paths}

InitFn ==
    /\ current_ = RootPath
    /\ child_index = EmptyDict
    /\ op = "init"
    /\ args \in FrameIDs \X FrameIDs
    /\ result = NoResult
    /\ trace = << [event |-> "init", current_ |-> RootPath,
                   child_index |-> EmptyDict, result |-> NoResult] >>
    /\ frames = << [path |-> RootPath, ancestors |-> {}] >>
    /\ stack = <<1>>
    /\ wellNested = TRUE

FnParent == Query("parent", args, parent(args[1]))

FnIsChildOf == Query("is_child_of", args, is_child_of(args[1], args[2]))

FnIsParentOf == Query("is_parent_of", args, is_parent_of(args[1], args[2]))

NextFn ==
    \/ FnParent
    \/ FnIsChildOf
    \/ FnIsParentOf

SpecFn == InitFn /\ [][NextFn]_vars

(***************************************************************************)
(* ID construction, comparison and hashing as pure functions: three pairs  *)
(* (name, frame) are drawn in the initial state; the operations build an   *)
(* ID from each and compare or hash them.                                  *)
(***************************************************************************)
IDNames == {Str("x"), Str("y")}

IDPaths == {RootPath} \cup {<<0, i>> : i \in 1..MaxIDIndex}

\* The two forms ID.__init__ accepts for a frame.
IDFrames == {FrameID(t) : t \in IDPaths} \cup {Tuple(t) : t \in IDPaths}

IDInputs == IDNames \X IDFrames

InitID ==
    /\ current_ = RootPath
    /\ child_index = EmptyDict
    /\ op = "init"
    /\ args \in IDInputs \X IDInputs \X IDInputs
    /\ result = NoResult
    /\ trace = << [event |-> "init", current_ |-> RootPath,
                   child_index |-> EmptyDict, result |-> NoResult] >>
    /\ frames = << [path |-> RootPath, ancestors |-> {}] >>
    /\ stack = <<1>>
    /\ wellNested = TRUE

\* The ID built from the i-th pair.
Built(i) == ID(args[i][1], args[i][2]).value

\* ID(name, frame) for each pair.
FnIDNew ==
    Query("ID", args, [i \in 1..3 |-> ID(args[i][1], args[i][2])])

\* a == b for every two of the IDs.
FnIDEq ==
    Query("ID.__eq__", args,
          [i \in 1..3 |-> [j \in 1..3 |-> ID_eq(Built(i), Built(j))]])

\* hash(a) for each of the IDs.
FnIDHash ==
    Query("ID.__hash__", args, [i \in 1..3 |-> ID_hash(Built(i))])

NextID ==
    \/ FnIDNew
    \/ FnIDEq
    \/ FnIDHash

SpecID == InitID /\ [][NextID]_vars


(***************************************************************************)
(* Properties of the registry, stated over the history of events.          *)
(* trace[k] is the k-th entry: trace[1] is the initial state and, for      *)
(* k > 1, trace[k - 1] is the state an event found and trace[k] the state  *)
(* and the outcome it left.                                                *)
(***************************************************************************)
Events == 2..Len(trace)

IsCall(k) == trace[k].event = "call"

IsReturn(k) == trace[k].event = "return"

Before(k) == trace[k - 1]

After(k) == trace[k]

\* Every key either dict holds; any other key reads as 0 in both.
Keys(k) == DOMAIN Before(k).child_index \cup DOMAIN After(k).child_index

Count(event) == Cardinality({k \in Events : trace[k].event = event})

\* C1: in a well-nested run the paths given to distinct call frames (the
\* value of current_ right after each call event) are pairwise different,
\* also when the earlier frame has returned.
C1_CallPathsDistinct ==
    wellNested =>
        \A i, j \in Events :
            (i < j /\ IsCall(i) /\ IsCall(j))
                => After(i).current_ # After(j).current_

\* A well-nested run in which a frame returned and its parent called again.
C1_Witness ==
    /\ wellNested
    /\ \E i, j \in Events :
        /\ i + 1 < j
        /\ IsCall(i) /\ IsReturn(i + 1) /\ IsCall(j)
        /\ Before(i).current_ = Before(j).current_

\* C2: two call events processed while current_ is the same path P give
\* the new frames different last elements, the later call the strictly
\* greater one, whatever events lie between them.
C2_SiblingIndexIncreases ==
    \A i, j \in Events :
        (i < j /\ IsCall(i) /\ IsCall(j)
               /\ Before(i).current_ = Before(j).current_)
            => Last(After(i).current_) < Last(After(j).current_)

\* Two calls from the same path with a nested call and a line event
\* somewhere between them.
C2_Witness ==
    \E i, j \in Events :
        /\ i < j /\ IsCall(i) /\ IsCall(j)
        /\ Before(i).current_ = Before(j).current_
        /\ \E k \in (i + 1)..(j - 1) : IsCall(k)
        /\ \E k \in (i + 1)..(j - 1) : trace[k].event = "line"

\* C3: a call event processed with current_ = P returns the FrameID of P
\* (the caller), sets current_ to P with child_index[P] appended, and
\* changes no value of child_index.
C3_CallEffect ==
    \A k \in Events :
        IsCall(k) =>
            LET P == Before(k).current_
            IN  /\ After(k).result = Return(FrameID(P))
                /\ After(k).current_ =
                       Append(P, Lookup(Before(k).child_index, P))
                /\ \A key \in Keys(k) :
                       Lookup(After(k).child_index, key)
                           = Lookup(Before(k).child_index, key)

\* A call from a frame that is not the root and has a finished child.
C3_Witness ==
    \E k \in Events :
        /\ IsCall(k)
        /\ Len(Before(k).current_) = 2
        /\ Lookup(Before(k).child_index, Before(k).current_) = 1

\* C4: a return event processed with current_ = P + (i,) sets current_ to
\* P, increases child_index[P] by exactly 1, leaves every other value of
\* child_index unchanged and returns the FrameID of P.
C4_ReturnEffect ==
    \A k \in Events :
        (IsReturn(k) /\ Len(Before(k).current_) >= 1) =>
            LET P == DropLast(Before(k).current_)
            IN  /\ After(k).current_ = P
                /\ Lookup(After(k).child_index, P)
                       = Lookup(Before(k).child_index, P) + 1
                /\ \A key \in Keys(k) \ {P} :
                       Lookup(After(k).child_index, key)
                           = Lookup(Before(k).child_index, key)
                /\ After(k).result = Return(FrameID(P))

\* The second child of a frame returns while other counters are set.
C4_Witness ==
    \E k \in Events :
        /\ IsReturn(k)
        /\ Len(Before(k).current_) = 2
        /\ Lookup(Before(k).child_index, DropLast(Before(k).current_)) = 1
        /\ Cardinality(DOMAIN Before(k).child_index) >= 2


\* The operations that are not call or return events.
ReadOnlyOps ==
    {"line", "current", "parent", "is_child_of", "is_parent_of", "FrameID", "ID"}

\* The last entry at or before k that is not a line event.
RECURSIVE LineRunStart(_)
LineRunStart(k) ==
    IF trace[k].event = "line" THEN LineRunStart(k - 1) ELSE k

\* C5: only call and return events change the registry.  A line event and
\* current() return the FrameID of current_ and leave current_ and
\* child_index as they were; parent, is_child_of, is_parent_of and the
\* construction of a FrameID or an ID leave them as they were too.  Hence
\* every line event of a run of consecutive line events returns the
\* FrameID of the path the event before the run left in current_.
C5_OnlyCallAndReturnMutate ==
    /\ [][op' \in ReadOnlyOps =>
            /\ current_' = current_
            /\ child_index' = child_index
            /\ op' \in {"line", "current"} => result' = Return(FrameID(current_))
         ]_vars
    /\ [](\A k \in Events :
            trace[k].event = "line" =>
                After(k).result = Return(FrameID(trace[LineRunStart(k)].current_)))

\* Two line events in a row after a return, in a frame below the root,
\* with a counter set.
C5_Witness ==
    /\ op = "line"
    /\ Len(trace) >= 5
    /\ trace[Len(trace) - 1].event = "line"
    /\ IsReturn(Len(trace) - 2)
    /\ Len(current_) >= 2
    /\ Lookup(child_index, current_) = 1

\* C6: an event kind other than line, call and return ends in an error
\* (no FrameID is returned, no transition is taken) that names the wrong
\* event type, and leaves current_ and child_index exactly as they were.
C6_InvalidEventRejected ==
    \A k \in Events :
        trace[k].event \notin {"line", "call", "return"} =>
            /\ After(k).result.kind = "raise"
            /\ After(k).result.args = <<"event type wrong: ", trace[k].event>>
            /\ After(k).current_ = Before(k).current_
            /\ After(k).child_index = Before(k).child_index

\* An unknown event arrives in a nested frame after a sibling returned.
C6_Witness ==
    \E k \in Events :
        /\ trace[k].event = "exception"
        /\ Len(Before(k).current_) = 2
        /\ Lookup(Before(k).child_index, RootPath) = 1

\* The nesting depth: the root frame and every call not yet returned.
Depth == 1 + Count("call") - Count("return")

\* C7: in a well-nested run, after every prefix of the events the path of
\* current() is as long as the nesting depth (the calls not yet returned,
\* the root frame counted as the first level).
C7_PathLengthIsDepth ==
    wellNested =>
        /\ current(current_).kind = "return"
        /\ Len(current(current_).value.frame_id_tuple) = Depth

\* Depth 3 reached after a frame has already returned, with line events
\* in the run.
C7_Witness ==
    /\ wellNested
    /\ Depth = 3
    /\ Count("return") >= 1
    /\ Count("line") >= 1

\* C8: a call event followed immediately by a return event restores
\* current_ to the path it had before the call, and child_index of that
\* path has grown by 1.
C8_CallThenReturnRestores ==
    \A k \in Events :
        (IsCall(k) /\ k + 1 \in Events /\ IsReturn(k + 1)) =>
            LET P == Before(k).current_
            IN  /\ After(k + 1).current_ = P
                /\ Lookup(After(k + 1).child_index, P)
                       = Lookup(Before(k).child_index, P) + 1

\* A call and its immediate return in a nested frame that already has a
\* finished child.
C8_Witness ==
    \E k \in Events :
        /\ IsCall(k) /\ k + 1 \in Events /\ IsReturn(k + 1)
        /\ Len(Before(k).current_) = 2
        /\ Lookup(Before(k).child_index, Before(k).current_) = 1

\* C9: among the frames of a well-nested run (the root and every frame a
\* call created), A's path is a strict prefix of B's path exactly when A
\* was active (called and not yet returned) at the moment B was created.
C9_PrefixIffAncestor ==
    wellNested =>
        \A A, B \in 1..Len(frames) :
            /\ IsStrictPrefix(frames[A].path, frames[B].path)
                   <=> A \in frames[B].ancestors
            /\ (A # B /\ A \notin frames[B].ancestors)
                   => ~IsPrefix(frames[A].path, frames[B].path)

\* A frame two levels deep, created after a shallower frame that is not
\* among its ancestors had returned.
C9_Witness ==
    /\ wellNested
    /\ \E A, B \in 1..Len(frames) :
        /\ A < B
        /\ A \notin frames[B].ancestors
        /\ Len(frames[A].path) < Len(frames[B].path)
        /\ Cardinality(frames[B].ancestors) = 2

(***************************************************************************)
(* Properties of the FrameID methods as pure functions (SpecFn).           *)
(***************************************************************************)
\* C10: for any two FrameIDs a and b, a.is_child_of(b) returns a boolean,
\* never an error: true iff b's path equals a's path with its last element
\* dropped, false otherwise.
C10_IsChildOfIsParentTest ==
    op = "is_child_of" =>
        result = Return(Bool(args[2].frame_id_tuple
                                 = DropLast(args[1].frame_id_tuple)))


\* C12: parent of a FrameID other than the root returns the FrameID whose
\* path is the original path without its last element; parent of the root
\* frame (0,) ends in an error and returns no FrameID.
C12_ParentOfRootFails ==
    op = "parent" =>
        IF args[1] = FrameID(RootPath)
        THEN result.kind = "raise"
        ELSE result = Return(FrameID(SubSeq(args[1].frame_id_tuple, 1,
                                            Len(args[1].frame_id_tuple) - 1)))

(***************************************************************************)
(* Further properties of the registry (Spec).                              *)
(***************************************************************************)
\* C11: for FrameIDs a and b obtained from the registry, a.is_parent_of(b)
\* gives a result, and it is the result of b.is_child_of(a).
C11_ParentOfIsInverseOfChildOf ==
    op = "is_parent_of" =>
        /\ result.kind = "return"
        /\ result = is_child_of(args[2], args[1])

\* The kinds of the events processed so far, in order.
EventKinds == [k \in 1..(Len(trace) - 1) |-> trace[k + 1].event]

Scenario13 == <<"call", "call", "return", "return", "call">>

\* C13: from the initial state the events call, call, return, return, call
\* return the FrameIDs (0,), (0,0), (0,0), (0,), (0,), pass through
\* current_ = (0,0), (0,0,0), (0,0), (0,) and end with current_ = (0,1),
\* child_index[(0,0)] = 1 and child_index[(0,)] = 1.
C13_Scenario ==
    (Len(trace) = 6 /\ EventKinds = Scenario13) =>
        /\ [k \in 1..5 |-> trace[k + 1].result]
               = << Return(FrameID(<<0>>)), Return(FrameID(<<0, 0>>)),
                    Return(FrameID(<<0, 0>>)), Return(FrameID(<<0>>)),
                    Return(FrameID(<<0>>)) >>
        /\ [k \in 1..5 |-> trace[k + 1].current_]
               = << <<0, 0>>, <<0, 0, 0>>, <<0, 0>>, <<0>>, <<0, 1>> >>
        /\ current_ = <<0, 1>>
        /\ Lookup(child_index, <<0, 0>>) = 1
        /\ Lookup(child_index, <<0>>) = 1

\* The five events of the scenario have been processed.
C13_Witness ==
    /\ Len(trace) = 6
    /\ EventKinds = Scenario13
    /\ op = "call"

Scenario14 == <<"call", "call", "return", "return", "call", "call">>

\* C14: child_index of a path is 0 at the moment the path is first given
\* to a frame, so the first call made from inside a new frame gets sibling
\* index 0 whatever happened in earlier siblings; two invocations of f
\* from the global frame, each calling g once, give the f frames (0,0) and
\* (0,1) and the g frames (0,0,0) and (0,1,0).
C14_NewFrameStartsAtZero ==
    /\ Lookup(trace[1].child_index, trace[1].current_) = 0
    /\ \A k \in Events :
           IsCall(k) => Lookup(After(k).child_index, After(k).current_) = 0
    /\ \A k \in Events :
           (IsCall(k) /\ k + 1 \in Events /\ IsCall(k + 1))
               => Last(After(k + 1).current_) = 0
    /\ (Len(trace) = 7 /\ EventKinds = Scenario14) =>
           [k \in 2..Len(frames) |-> frames[k].path]
               = (2 :> <<0, 0>>) @@ (3 :> <<0, 0, 0>>)
                     @@ (4 :> <<0, 1>>) @@ (5 :> <<0, 1, 0>>)

\* f has been invoked twice from the global frame and has called g in
\* each invocation.
C14_Witness ==
    /\ Len(trace) = 7
    /\ EventKinds = Scenario14
    /\ Lookup(child_index, <<0, 0>>) = 1

\* C17: in a well-nested run, for every split of current_ into a non-empty
\* prefix Q followed by an element i, child_index[Q] = i: a parent's
\* counter is the index of its active child.
C17_CounterIsActiveChild ==
    wellNested =>
        \A n \in 1..(Len(current_) - 1) :
            Lookup(child_index, SubSeq(current_, 1, n)) = current_[n + 1]

\* Two frames are open below the root, both with a non-zero index.
C17_Witness ==
    /\ wellNested
    /\ Len(current_) = 3
    /\ current_[2] = 1
    /\ current_[3] = 1

\* The paths that have been current_ or a key of child_index.
SeenPaths ==
    UNION {DOMAIN trace[k].child_index \cup {trace[k].current_} :
               k \in 1..Len(trace)}

\* The return events processed so far that left current_ = P.
ReturnsTo(P) == {k \in Events : IsReturn(k) /\ After(k).current_ = P}

\* The keys whose value an event changed.
Changed(k) ==
    {key \in Keys(k) :
        Lookup(After(k).child_index, key) # Lookup(Before(k).child_index, key)}

\* C18: child_index[P] is the number of return events processed so far
\* that left current_ = P; an event changes the value of at most one entry
\* of child_index, by +1, and no entry ever decreases.
C18_CounterCountsReturns ==
    /\ \A P \in SeenPaths :
           Lookup(child_index, P) = Cardinality(ReturnsTo(P))
    /\ \A k \in Events :
           /\ Cardinality(Changed(k)) <= 1
           /\ \A key \in Changed(k) :
                  Lookup(After(k).child_index, key)
                      = Lookup(Before(k).child_index, key) + 1

\* Two paths with different numbers of finished children.
C18_Witness ==
    /\ Lookup(child_index, <<0>>) = 2
    /\ Lookup(child_index, <<0, 1>>) = 1

\* C19: in a well-nested run current_ is never empty and starts with the
\* root element 0.  A return event processed while current_ is the root
\* (0,) is not rejected: it raises no error, sets current_ to the empty
\* path () and increments child_index[()]; a call right after it produces
\* the path (1,), which does not start with the root element.
C19_RootReturnAccepted ==
    /\ wellNested => (Len(current_) >= 1 /\ current_[1] = 0)
    /\ \A k \in Events :
           (IsReturn(k) /\ Before(k).current_ = RootPath) =>
               /\ After(k).result = Return(FrameID(<<>>))
               /\ After(k).current_ = <<>>
               /\ Lookup(After(k).child_index, <<>>)
                      = Lookup(Before(k).child_index, <<>>) + 1
               /\ (k + 1 \in Events /\ IsCall(k + 1))
                      => After(k + 1).current_ = <<1>>

\* A return processed at the root after a well-nested call and return,
\* followed by a call.
C19_Witness ==
    \E k \in Events :
        /\ k > 3
        /\ IsReturn(k) /\ Before(k).current_ = RootPath
        /\ k + 1 \in Events /\ IsCall(k + 1)
        /\ ~wellNested


\* C16: constructing an ID with a frame argument that is neither a FrameID
\* nor a tuple ends in an error: no ID is produced, and current_ and
\* child_index are what the last event left.
C16_BadFrameArgumentRejected ==
    (op = "ID" /\ args[2].cls \notin {"FrameID", "tuple"}) =>
        /\ result.kind = "raise"
        /\ current_ = trace[Len(trace)].current_
        /\ child_index = trace[Len(trace)].child_index

\* An ID was requested for a list of ints, in a nested frame with a
\* counter set.
C16_Witness ==
    /\ op = "ID"
    /\ args[2] = List(current_)
    /\ result.kind = "raise"
    /\ Len(current_) = 2
    /\ Lookup(child_index, RootPath) = 1

(***************************************************************************)
(* Properties of ID as a key (SpecID).                                     *)
(***************************************************************************)
\* The frame path the i-th pair stands for, in either form.
InputPath(i) ==
    IF args[i][2].cls = "FrameID" THEN args[i][2].frame_id_tuple
    ELSE args[i][2].items

SameInput(i, j) == args[i][1] = args[j][1] /\ InputPath(i) = InputPath(j)

\* C15: two IDs are equal iff their names are equal and their frame paths
\* are equal, whether each was built from a FrameID or from the raw tuple;
\* equality is reflexive, symmetric and transitive, and equal IDs have
\* equal hashes.
C15_IDEqualityByNameAndPath ==
    /\ op = "ID.__eq__" =>
        LET eq(i, j) == result[i][j] = Return(Bool(TRUE))
        IN  /\ \A i, j \in 1..3 : result[i][j] = Return(Bool(SameInput(i, j)))
            /\ \A i \in 1..3 : eq(i, i)
            /\ \A i, j \in 1..3 : eq(i, j) => eq(j, i)
            /\ \A i, j, k \in 1..3 : (eq(i, j) /\ eq(j, k)) => eq(i, k)
    /\ op = "ID.__hash__" =>
        \A i, j \in 1..3 :
            /\ result[i].kind = "return"
            /\ SameInput(i, j) => result[i] = result[j]

\* ("x", (0,1)) built from a tuple and from a FrameID compare equal, and
\* unequal to ("x", (0,2)).
C15_Witness ==
    /\ op = "ID.__eq__"
    /\ args[1] = <<Str("x"), Tuple(<<0, 1>>)>>
    /\ args[2] = <<Str("x"), FrameID(<<0, 1>>)>>
    /\ args[3] = <<Str("x"), Tuple(<<0, 2>>)>>
    /\ result[1][2] = Return(Bool(TRUE))
    /\ result[1][3] = Return(Bool(FALSE))

=============================================================================
